---- MODULE Spec2Model ----
(***************************************************************************)
(* The hotel dashboard script src/booking.py as a state machine.           *)
(*                                                                         *)
(* The script is executed top to bottom by the hosting UI framework: once  *)
(* when the page is opened and once more after every change of a sidebar   *)
(* control.  One action models one statement of the script; pc names the   *)
(* statement that runs next.                                               *)
(*                                                                         *)
(* Representation.  A text is a sequence of one-character strings.  A      *)
(* floating-point value is a record [kind, v]: kind "num" with v the value *)
(* in hundredths, kind "nan" (the missing-value marker, v = 0) or kind     *)
(* "inf" (v = 1 or -1, the sign).  A data frame is a sequence of rows, each *)
(* row carrying its index label idx.                                       *)
(***************************************************************************)
EXTENDS Integers, Sequences, FiniteSets, TLC

\* ------------------------------------------------------------------ values

Num(n) == [kind |-> "num", v |-> n]
NaN == [kind |-> "nan", v |-> 0]
Inf(sign) == [kind |-> "inf", v |-> sign]

\* a <= b on floating-point values: false when either is the missing value.
Leq(a, b) ==
    /\ a.kind # "nan" /\ b.kind # "nan"
    /\ \/ a.kind = "num" /\ b.kind = "num" /\ a.v <= b.v
       \/ a.kind = "inf" /\ a.v = -1
       \/ b.kind = "inf" /\ b.v = 1

\* hundredths per unit
Unit == 10 * 10

\* ------------------------------------------------------------------- texts

Digits == {"0", "1", "2", "3", "4", "5", "6", "7", "8", "9"}

DigitVal(c) ==
    CASE c = "0" -> 0 [] c = "1" -> 1 [] c = "2" -> 2 [] c = "3" -> 3
      [] c = "4" -> 4 [] c = "5" -> 5 [] c = "6" -> 6 [] c = "7" -> 7
      [] c = "8" -> 8 [] c = "9" -> 9

AllDigits(s) == \A i \in 1..Len(s) : s[i] \in Digits

RECURSIVE DigitsValue(_)
DigitsValue(ds) ==
    IF ds = <<>> THEN 0
    ELSE DigitsValue(SubSeq(ds, 1, Len(ds) - 1)) * 10 + DigitVal(ds[Len(ds)])

\* str.replace(old, ''): every non-overlapping occurrence of old, scanning
\* from the left, is removed.
RECURSIVE StrReplace(_, _)
StrReplace(s, old) ==
    IF Len(s) < Len(old) THEN s
    ELSE IF SubSeq(s, 1, Len(old)) = old
         THEN StrReplace(SubSeq(s, Len(old) + 1, Len(s)), old)
         ELSE <<s[1]>> \o StrReplace(Tail(s), old)

Whitespace == {" ", "\t", "\n"}

\* str.strip(): leading and trailing whitespace removed.
RECURSIVE StrStrip(_)
StrStrip(s) ==
    IF s = <<>> THEN s
    ELSE IF s[1] \in Whitespace THEN StrStrip(Tail(s))
    ELSE IF s[Len(s)] \in Whitespace THEN StrStrip(SubSeq(s, 1, Len(s) - 1))
    ELSE s

\* Spellings of infinity the numeric parser accepts (it compares without
\* regard to case; these are the spellings the catalogue below can produce).
InfTexts == {<<"i", "n", "f">>, <<"I", "n", "f">>, <<"I", "N", "F">>}

\* The hundredths of a fraction part: its first two digits, zero-padded.
\* No text of the catalogue has more than two fraction digits.
Frac2(fp) ==
    IF Len(fp) = 0 THEN 0
    ELSE IF Len(fp) = 1 THEN DigitVal(fp[1]) * 10
    ELSE DigitVal(fp[1]) * 10 + DigitVal(fp[2])

DotPos(s) ==
    IF \E i \in 1..Len(s) : s[i] = "."
    THEN CHOOSE i \in 1..Len(s) : s[i] = "." /\ \A j \in 1..(i - 1) : s[j] # "."
    ELSE 0

\* digits [ "." digits ] with at least one digit, as a value in hundredths
IsUnsignedDecimal(s) ==
    LET d == DotPos(s)
        ip == IF d = 0 THEN s ELSE SubSeq(s, 1, d - 1)
        fp == IF d = 0 THEN <<>> ELSE SubSeq(s, d + 1, Len(s))
    IN AllDigits(ip) /\ AllDigits(fp) /\ Len(ip) + Len(fp) > 0

UnsignedDecimal(s) ==
    LET d == DotPos(s)
        ip == IF d = 0 THEN s ELSE SubSeq(s, 1, d - 1)
        fp == IF d = 0 THEN <<>> ELSE SubSeq(s, d + 1, Len(s))
    IN DigitsValue(ip) * Unit + Frac2(fp)

\* pd.to_numeric(..., errors='coerce') on one string: a signed decimal is
\* its value, a spelling of infinity is infinity, anything else (the empty
\* string included) is the missing value.  Exponent notation is not
\* modelled: no text of the catalogue holds one.
ToNumeric(s) ==
    LET signed == s # <<>> /\ s[1] \in {"+", "-"}
        body == IF signed THEN Tail(s) ELSE s
        sign == IF signed /\ s[1] = "-" THEN -1 ELSE 1
    IN IF IsUnsignedDecimal(body) THEN Num(sign * UnsignedDecimal(body))
       ELSE IF body \in InfTexts THEN Inf(sign)
       ELSE NaN

\* The position after the run of digits that starts at i.
RECURSIVE DigitRunEnd(_, _)
DigitRunEnd(s, i) ==
    IF i <= Len(s) /\ s[i] \in Digits THEN DigitRunEnd(s, i + 1) ELSE i

\* The regular expression (\d+\.\d+) matches at i: greedy digits, a dot, and
\* at least one digit.
RegexMatchAt(s, i) ==
    /\ s[i] \in Digits
    /\ LET e == DigitRunEnd(s, i)
       IN e + 1 <= Len(s) /\ s[e] = "." /\ s[e + 1] \in Digits

\* Variant of StrExtract: the pattern (\d+), the leftmost run of digits.
StrExtractDigits(s) ==
    IF \E i \in 1..Len(s) : s[i] \in Digits
    THEN LET i == CHOOSE k \in 1..Len(s) :
                      s[k] \in Digits /\ \A j \in 1..(k - 1) : s[j] \notin Digits
         IN [found |-> TRUE, s |-> SubSeq(s, i, DigitRunEnd(s, i) - 1)]
    ELSE [found |-> FALSE, s |-> <<>>]

\* Series.str.extract('(\d+\.\d+)')[0] on one string: the leftmost match, as
\* [found, s]; found is FALSE when the pattern matches nowhere.
StrExtract(s) ==
    IF \E i \in 1..Len(s) : RegexMatchAt(s, i)
    THEN LET i == CHOOSE k \in 1..Len(s) :
                      RegexMatchAt(s, k) /\ \A j \in 1..(k - 1) : ~RegexMatchAt(s, j)
             e == DigitRunEnd(s, i)
         IN [found |-> TRUE, s |-> SubSeq(s, i, DigitRunEnd(s, e + 1) - 1)]
    ELSE [found |-> FALSE, s |-> <<>>]

\* ------------------------------------------------------- the source file

\* Bounds of the model: the rows of a source file and the interactions of a
\* session.
MaxRows == 2
MaxInteractions == 2

\* The rows a source file hotels_data.csv is made of: the listings of the
\* documented scenarios ("1,234 EGP", "N/A", "8.5 Excellent", "Excellent",
\* hotels A and B) and texts on the edges of the two conversions.
Catalogue ==
    <<
       [name |-> "A", location |-> "Cairo",
        price |-> <<"1", ",", "0", "0", "0", " ", "E", "G", "P">>,
        rating |-> <<"7", ".", "0", " ", "G", "o", "o", "d">>],
       [name |-> "B", location |-> "Giza",
        price |-> <<"5", "0", "0", " ", "E", "G", "P">>,
        rating |-> <<"9", ".", "0", " ", "G", "r", "e", "a", "t">>],
       [name |-> "C", location |-> "Cairo",
        price |-> <<"1", ",", "2", "3", "4", " ", "E", "G", "P">>,
        rating |-> <<"8", ".", "5", " ", "E", "x", "c", "e", "l", "l", "e", "n", "t">>],
       [name |-> "D", location |-> "Giza",
        price |-> <<"N", "/", "A">>,
        rating |-> <<"8", ".", "0", " ", "F", "i", "n", "e">>],
       [name |-> "E", location |-> "Cairo",
        price |-> <<"7", "5", "0", " ", "E", "G", "P">>,
        rating |-> <<"E", "x", "c", "e", "l", "l", "e", "n", "t">>],
       [name |-> "F", location |-> "Giza",
        price |-> <<"2", "5", "0", " ", "E", "G", "P">>,
        rating |-> <<"1", "0">>],
       [name |-> "G", location |-> "Cairo",
        price |-> <<"i", "n", "f", " ", "E", "G", "P">>,
        rating |-> <<"6", ".", "5", " ", "O", "k">>],
       [name |-> "A", location |-> "Giza",
        price |-> <<"5", "0", "0">>,
        rating |-> <<"T", "o", "p", " ", "1", "0", " ", "9", ".", "0">>],
       [name |-> "H", location |-> "Giza",
        price |-> <<"C", "a", "l", "l">>,
        rating |-> <<"7", ".", "5", " ", "G", "o", "o", "d">>]
    >>

\* Hotel names in sorting order.
NameOrder == <<"A", "B", "C", "D", "E", "F", "G", "H">>

\* The source files of the model: the selections of at most MaxRows rows of
\* the catalogue, in catalogue order.
RECURSIVE PickRows(_, _)
PickRows(S, i) ==
    IF i > Len(Catalogue) THEN <<>>
    ELSE IF i \in S THEN <<Catalogue[i]>> \o PickRows(S, i + 1)
    ELSE PickRows(S, i + 1)

SourceFiles ==
    {PickRows(S, 1) : S \in {T \in SUBSET (1..Len(Catalogue)) : Cardinality(T) <= MaxRows}}

\* ----------------------------------------------------------------- loading

\* Texts pd.read_csv reads as a missing value (its default na_values; the
\* ones a catalogue cell can spell).
NaValues == {<<>>, <<"N", "/", "A">>, <<"N", "A">>, <<"N", "a", "N">>, <<"n", "a", "n">>}

NaCell == [na |-> TRUE, s |-> <<>>]
StrCell(s) == [na |-> FALSE, s |-> s]

ReadCell(s) == IF s \in NaValues THEN NaCell ELSE StrCell(s)

\* pd.read_csv("hotels_data.csv"): one row per line, indexed from 0.
ReadCsv(file) ==
    [i \in 1..Len(file) |->
        [idx |-> i - 1, name |-> file[i].name, location |-> file[i].location,
         price |-> ReadCell(file[i].price), rating |-> ReadCell(file[i].rating)]]

\* The dtype read_csv infers for a column: it stays a column of strings
\* (object) when it has no row or holds a cell that is not a number; a
\* column whose cells are all numbers or missing becomes numeric, and the
\* .str accessor raises AttributeError on it.
IsObjectColumn(cells) ==
    \/ cells = <<>>
    \/ \E i \in 1..Len(cells) : ~cells[i].na /\ ToNumeric(cells[i].s).kind = "nan"

PriceCells(df) == [i \in 1..Len(df) |-> df[i].price]
RatingCells(df) == [i \in 1..Len(df) |-> df[i].rating]

\* Variant of CleanPriceText: the thousands separators left in.
CleanPriceTextKeepCommas(s) == StrStrip(StrReplace(s, <<"E", "G", "P">>))

\* .str.replace('EGP', '').str.replace(',', '').str.strip() on one string
CleanPriceText(s) == StrStrip(StrReplace(StrReplace(s, <<"E", "G", "P">>), <<",">>))

\* One cell of the price column through lines 17-20; a missing cell stays
\* missing.
CleanPriceCell(c) == IF c.na THEN NaN ELSE ToNumeric(CleanPriceText(c.s))

\* One cell of the rating column through lines 23-26; a cell with no match
\* is missing.
CleanRatingCell(c) ==
    IF c.na THEN NaN
    ELSE LET m == StrExtract(c.s) IN IF m.found THEN ToNumeric(m.s) ELSE NaN

CleanPriceColumn(df) == [i \in 1..Len(df) |-> [df[i] EXCEPT !.price = CleanPriceCell(@)]]
CleanRatingColumn(df) == [i \in 1..Len(df) |-> [df[i] EXCEPT !.rating = CleanRatingCell(@)]]

IsNa(x) == x.kind = "nan"

\* dropna(subset=['price', 'rating']): the rows with neither value missing,
\* order and index labels kept.
KeepRow(r) == ~IsNa(r.price) /\ ~IsNa(r.rating)
DropNa(df) == SelectSeq(df, KeepRow)

\* ----------------------------------------------------- frames and charts

Min(a, b) == IF a <= b THEN a ELSE b

\* Series.max() of the price column: the missing value for a frame with no
\* row, infinity when a price is infinite.
PriceMax(df) ==
    IF df = <<>> THEN NaN
    ELSE IF \E i \in 1..Len(df) : df[i].price.kind = "inf" /\ df[i].price.v = 1 THEN Inf(1)
    ELSE IF \A i \in 1..Len(df) : df[i].price.kind = "inf" THEN Inf(-1)
    ELSE Num(CHOOSE m \in {df[i].price.v : i \in {j \in 1..Len(df) : df[j].price.kind = "num"}} :
                 \A i \in 1..Len(df) : df[i].price.kind = "num" => df[i].price.v <= m)

\* float(hotels_df['price'].max() or 0): a maximum of zero is falsy and
\* gives 0; the missing value is truthy and stays.
SliderMax(df) == LET m == PriceMax(df) IN IF m = Num(0) THEN Num(0) ELSE m

\* st.slider(min_value=0.0, max_value=m, value=(0.0, m)): the call returns
\* when m is a number from 0.0 up and raises when m is infinite (beyond the
\* numbers the page can show).  For the missing value, or a number below
\* 0.0, the script does not determine the outcome: the model takes both.
SliderAccepts(m) == m.kind = "num" /\ 0 <= m.v
SliderRejects(m) == m.kind = "inf"

\* hotels_df['location'].unique()
Locations(df) == {df[i].location : i \in 1..Len(df)}

\* Variant of InRange: the upper end of the price range excluded.
InRangeStrict(r, lo_p, hi_p, lo_r, hi_r, locs) ==
    /\ Leq(lo_p, r.price)
    /\ Leq(r.price, hi_p) /\ r.price # hi_p
    /\ Leq(lo_r, r.rating)
    /\ Leq(r.rating, hi_r)
    /\ r.location \in locs

\* The boolean mask of lines 56-62 on one row.
InRange(r, lo_p, hi_p, lo_r, hi_r, locs) ==
    /\ Leq(lo_p, r.price)
    /\ Leq(r.price, hi_p)
    /\ Leq(lo_r, r.rating)
    /\ Leq(r.rating, hi_r)
    /\ r.location \in locs

\* hotels_df[mask]: the rows of the frame the mask holds of, in order.
Filter(df, lo_p, hi_p, lo_r, hi_r, locs) ==
    LET keep(r) == InRange(r, lo_p, hi_p, lo_r, hi_r, locs) IN SelectSeq(df, keep)

\* sort_values(by="rating", ascending=False): a new frame, the rows in
\* descending order of rating.  The default sort is not stable, so rows of
\* equal rating may come in any order: the set of possible results.
SortValues(df) ==
    LET n == Len(df)
        perms == {p \in [1..n -> 1..n] : \A i, j \in 1..n : i # j => p[i] # p[j]}
    IN {[i \in 1..n |-> df[p[i]]] : p \in
          {q \in perms : \A i, j \in 1..n : i < j => df[q[i]].rating.v >= df[q[j]].rating.v}}

TopN == 10

\* head(10)
HeadN(df) == SubSeq(df, 1, Min(TopN, Len(df)))

RECURSIVE SumPrices(_)
SumPrices(df) == IF df = <<>> THEN 0 ELSE df[1].price.v + SumPrices(Tail(df))

\* Series.mean() of the price column, an exact ratio num/den of hundredths;
\* the mean of no value is the missing value.
Ratio(n, d) == [kind |-> "num", num |-> n, den |-> d]
NaNRatio == [kind |-> "nan", num |-> 0, den |-> 1]
Mean(df) == IF df = <<>> THEN NaNRatio ELSE Ratio(SumPrices(df), Len(df))

\* price < mean; a comparison with the missing value is false.
BelowMean(r, m) == m.kind = "num" /\ r.price.v * m.den < m.num

\* filtered_df[filtered_df['price'] < filtered_df['price'].mean()]
BudgetHotels(df, m) == LET keep(r) == BelowMean(r, m) IN SelectSeq(df, keep)

\* Variant of GroupMean: a frame with no row aggregates to one row holding
\* the missing value.
GroupMeanPlaceholder(df) ==
    IF df = <<>> THEN <<[name |-> "", price |-> NaNRatio]>>
    ELSE LET present(n) == \E i \in 1..Len(df) : df[i].name = n
             names == SelectSeq(NameOrder, present)
             rowsOf(n) == LET is(r) == r.name = n IN SelectSeq(df, is)
         IN [k \in 1..Len(names) |-> [name |-> names[k], price |-> Mean(rowsOf(names[k]))]]

\* groupby("name")["price"].mean().reset_index(): one row per name present,
\* in name order, with the mean price of its rows.
GroupMean(df) ==
    LET present(n) == \E i \in 1..Len(df) : df[i].name = n
        names == SelectSeq(NameOrder, present)
        rowsOf(n) == LET is(r) == r.name = n IN SelectSeq(df, is)
    IN [k \in 1..Len(names) |-> [name |-> names[k], price |-> Mean(rowsOf(names[k]))]]

\* The data of a chart: one point per row of the frame handed to the builder.
BarRating(df, label) ==
    [i \in 1..Len(df) |->
        [x |-> df[i].name, y |-> df[i].rating,
         text |-> IF label = "rating" THEN df[i].rating ELSE Num(0)]]
Histogram(df) == [i \in 1..Len(df) |-> [x |-> df[i].price]]
Scatter(df) ==
    [i \in 1..Len(df) |->
        [x |-> df[i].rating, y |-> df[i].price, size |-> df[i].price, color |-> df[i].name]]
BarAvgPrice(g) == [i \in 1..Len(g) |-> [x |-> g[i].name, y |-> g[i].price, text |-> g[i].price]]
LineRating(df) == [i \in 1..Len(df) |-> [x |-> df[i].name, y |-> df[i].rating]]
LinePrice(df) == [i \in 1..Len(df) |-> [x |-> df[i].name, y |-> df[i].price]]

\* The total of the y values of the bars of one category.
RECURSIVE CategoryTotal(_, _)
CategoryTotal(data, c) ==
    IF data = <<>> THEN 0
    ELSE (IF data[1].x = c THEN data[1].y.v ELSE 0) + CategoryTotal(Tail(data), c)

\* xaxis categoryorder 'total ascending' (line 168): the categories along the
\* axis, in ascending order of the total of their bars; categories of equal
\* total in any order.
TotalAscending(data) ==
    LET cats == {data[i].x : i \in 1..Len(data)}
        n == Cardinality(cats)
    IN {a \in [1..n -> cats] :
          /\ \A i, j \in 1..n : i # j => a[i] # a[j]
          /\ \A i, j \in 1..n : i < j => CategoryTotal(data, a[i]) <= CategoryTotal(data, a[j])}

\* ------------------------------------------------------------- the state

VARIABLES
    csv,                 \* the rows of hotels_data.csv
    pc,                  \* the statement of the script that runs next
    error,               \* the exception that ended the run, "" if none
    loads,               \* how many times the source file has been read
    runs,                \* how many runs of the script have been started
    hotels_df,           \* the base table
    ui,                  \* the values the user has set on the three controls
    widgets,             \* the controls as last rendered in the sidebar
    min_price, max_price, min_rating, max_rating, selected_locations,
    filtered_df,         \* the filtered table
    price_mean,          \* filtered_df['price'].mean() of line 123
    figs,                \* the charts on the page, by the script's names
    xaxis,               \* the categories of fig_price along its axis
    evaluations,         \* history: the control values filtered with, and the results
    repeated             \* history: some control values were filtered with twice

vars ==
    <<csv, pc, error, loads, runs, hotels_df, ui, widgets, min_price, max_price,
      min_rating, max_rating, selected_locations, filtered_df, price_mean, figs,
      xaxis, evaluations, repeated>>

controls == <<min_price, max_price, min_rating, max_rating, selected_locations>>
charts == <<price_mean, figs, xaxis>>
history == <<evaluations, repeated>>

FigNames ==
    {"fig_top_rated", "fig_price_dist", "fig_rating_vs_price", "fig_avg_price",
     "fig_budget_rated", "fig1", "fig2", "fig_price"}

\* The statements after the sidebar: the controls are on the page.
ChartPcs ==
    {"top_rated", "price_dist", "rating_vs_price", "avg_price", "budget_rated",
     "line_ratings", "line_prices", "hurghada", "success"}
PostFilter == ChartPcs \cup {"done"}
PostClean == {"sidebar", "filter"} \cup PostFilter

Unset == [set |-> FALSE, lo |-> Num(0), hi |-> Num(0)]
UnsetLocations == [set |-> FALSE, v |-> {}]

Init ==
    /\ csv \in SourceFiles
    /\ pc = "read_csv"
    /\ error = ""
    /\ loads = 0
    /\ runs = 1
    /\ hotels_df = <<>>
    /\ ui = [price |-> Unset, rating |-> Unset, locations |-> UnsetLocations]
    /\ widgets = [shown |-> FALSE, price_max |-> Num(0), options |-> {}]
    /\ min_price = Num(0) /\ max_price = Num(0)
    /\ min_rating = Num(0) /\ max_rating = Num(0)
    /\ selected_locations = {}
    /\ filtered_df = <<>>
    /\ price_mean = NaNRatio
    /\ figs = [f \in FigNames |-> [drawn |-> FALSE, data |-> <<>>]]
    /\ xaxis = <<>>
    /\ evaluations = {}
    /\ repeated = FALSE

\* -------------------------------------------------- the script, lines 13-62

\* Variant of LoadCsv: the cleaned table is kept from the first run and the
\* file is not read again.
LoadCsvOnce ==
    /\ pc = "read_csv"
    /\ IF loads = 0
       THEN /\ hotels_df' = ReadCsv(csv)
            /\ loads' = loads + 1
            /\ pc' = "clean_price"
       ELSE /\ UNCHANGED <<hotels_df, loads>>
            /\ pc' = "sidebar"
    /\ UNCHANGED <<csv, error, runs, ui, widgets, controls, filtered_df, charts, history>>

\* line 14: hotels_df = pd.read_csv("hotels_data.csv")
LoadCsv ==
    /\ pc = "read_csv"
    /\ hotels_df' = ReadCsv(csv)
    /\ loads' = loads + 1
    /\ pc' = "clean_price"
    /\ UNCHANGED <<csv, error, runs, ui, widgets, controls, filtered_df, charts, history>>

\* lines 17-20: the price column to numbers; .str raises on a numeric column
CleanPrice ==
    /\ pc = "clean_price"
    /\ IF IsObjectColumn(PriceCells(hotels_df))
       THEN /\ hotels_df' = CleanPriceColumn(hotels_df)
            /\ pc' = "clean_rating"
            /\ error' = error
       ELSE /\ hotels_df' = hotels_df
            /\ pc' = "crashed"
            /\ error' = "AttributeError"
    /\ UNCHANGED <<csv, loads, runs, ui, widgets, controls, filtered_df, charts, history>>

\* lines 23-26: the rating column to numbers
CleanRating ==
    /\ pc = "clean_rating"
    /\ IF IsObjectColumn(RatingCells(hotels_df))
       THEN /\ hotels_df' = CleanRatingColumn(hotels_df)
            /\ pc' = "dropna"
            /\ error' = error
       ELSE /\ hotels_df' = hotels_df
            /\ pc' = "crashed"
            /\ error' = "AttributeError"
    /\ UNCHANGED <<csv, loads, runs, ui, widgets, controls, filtered_df, charts, history>>

\* line 29: hotels_df = hotels_df.dropna(subset=['price', 'rating'])
DropNaRows ==
    /\ pc = "dropna"
    /\ hotels_df' = DropNa(hotels_df)
    /\ pc' = "sidebar"
    /\ UNCHANGED <<csv, error, loads, runs, ui, widgets, controls, filtered_df, charts, history>>

\* lines 35-53: the three controls; each returns the value the user set, or
\* its default when the user set none.  A slider that raises ends the run.
Sidebar ==
    /\ pc = "sidebar"
    /\ LET m == SliderMax(hotels_df)
           options == Locations(hotels_df)
       IN \/ /\ ~SliderRejects(m)
             /\ min_price' = IF ui.price.set THEN ui.price.lo ELSE Num(0)
             /\ max_price' = IF ui.price.set THEN ui.price.hi ELSE m
             /\ min_rating' = IF ui.rating.set THEN ui.rating.lo ELSE Num(0)
             /\ max_rating' = IF ui.rating.set THEN ui.rating.hi ELSE Num(10 * Unit)
             /\ selected_locations' = IF ui.locations.set THEN ui.locations.v ELSE options
             /\ widgets' = [shown |-> TRUE, price_max |-> m, options |-> options]
             /\ pc' = "filter"
             /\ error' = error
          \/ /\ ~SliderAccepts(m)
             /\ UNCHANGED <<controls, widgets>>
             /\ pc' = "crashed"
             /\ error' = "StreamlitAPIException"
    /\ UNCHANGED <<csv, loads, runs, hotels_df, ui, filtered_df, charts, history>>

\* Variant of ApplyFilter: the result is assigned to the base table as well.
ApplyFilterInPlace ==
    /\ pc = "filter"
    /\ LET result == Filter(hotels_df, min_price, max_price, min_rating, max_rating,
                            selected_locations)
           ctl == <<min_price, max_price, min_rating, max_rating, selected_locations>>
       IN /\ filtered_df' = result
          /\ hotels_df' = result
          /\ evaluations' = evaluations \cup {[ctl |-> ctl, result |-> result]}
          /\ repeated' = (repeated \/ \E e \in evaluations : e.ctl = ctl)
    /\ pc' = "top_rated"
    /\ UNCHANGED <<csv, error, loads, runs, ui, widgets, controls, charts>>

\* Variant of ApplyFilter: an incremental update, the mask applied to the
\* filtered table of the run before instead of the base table.
ApplyFilterIncremental ==
    /\ pc = "filter"
    /\ LET result == Filter(IF runs > 1 THEN filtered_df ELSE hotels_df,
                            min_price, max_price, min_rating, max_rating,
                            selected_locations)
           ctl == <<min_price, max_price, min_rating, max_rating, selected_locations>>
       IN /\ filtered_df' = result
          /\ evaluations' = evaluations \cup {[ctl |-> ctl, result |-> result]}
          /\ repeated' = (repeated \/ \E e \in evaluations : e.ctl = ctl)
    /\ pc' = "top_rated"
    /\ UNCHANGED <<csv, error, loads, runs, hotels_df, ui, widgets, controls, charts>>

\* lines 56-66: the filtered table, a new frame computed from the base table
ApplyFilter ==
    /\ pc = "filter"
    /\ LET result == Filter(hotels_df, min_price, max_price, min_rating, max_rating,
                            selected_locations)
           ctl == <<min_price, max_price, min_rating, max_rating, selected_locations>>
       IN /\ filtered_df' = result
          /\ evaluations' = evaluations \cup {[ctl |-> ctl, result |-> result]}
          /\ repeated' = (repeated \/ \E e \in evaluations : e.ctl = ctl)
    /\ pc' = "top_rated"
    /\ UNCHANGED <<csv, error, loads, runs, hotels_df, ui, widgets, controls, charts>>

\* ------------------------------------------------ the script, lines 68-176

Draw(f, data) == [figs EXCEPT ![f] = [drawn |-> TRUE, data |-> data]]

\* lines 68-80: the ten best-rated hotels
TopRated ==
    /\ pc = "top_rated"
    /\ \E sorted \in SortValues(filtered_df) :
          figs' = Draw("fig_top_rated", BarRating(HeadN(sorted), "rating"))
    /\ pc' = "price_dist"
    /\ UNCHANGED <<csv, error, loads, runs, hotels_df, ui, widgets, controls, filtered_df,
                   price_mean, xaxis, history>>

\* lines 82-91: the histogram of prices
PriceDistribution ==
    /\ pc = "price_dist"
    /\ figs' = Draw("fig_price_dist", Histogram(filtered_df))
    /\ pc' = "rating_vs_price"
    /\ UNCHANGED <<csv, error, loads, runs, hotels_df, ui, widgets, controls, filtered_df,
                   price_mean, xaxis, history>>

\* lines 93-105: rating against price
RatingVsPrice ==
    /\ pc = "rating_vs_price"
    /\ figs' = Draw("fig_rating_vs_price", Scatter(filtered_df))
    /\ pc' = "avg_price"
    /\ UNCHANGED <<csv, error, loads, runs, hotels_df, ui, widgets, controls, filtered_df,
                   price_mean, xaxis, history>>

\* lines 107-119: the mean price of each hotel name
AvgPriceByHotel ==
    /\ pc = "avg_price"
    /\ figs' = Draw("fig_avg_price", BarAvgPrice(GroupMean(filtered_df)))
    /\ pc' = "budget_rated"
    /\ UNCHANGED <<csv, error, loads, runs, hotels_df, ui, widgets, controls, filtered_df,
                   price_mean, xaxis, history>>

\* lines 121-134: the ten best-rated hotels priced below the mean
BudgetRated ==
    /\ pc = "budget_rated"
    /\ price_mean' = Mean(filtered_df)
    /\ \E sorted \in SortValues(BudgetHotels(filtered_df, price_mean')) :
          figs' = Draw("fig_budget_rated", BarRating(HeadN(sorted), "rating"))
    /\ pc' = "line_ratings"
    /\ UNCHANGED <<csv, error, loads, runs, hotels_df, ui, widgets, controls, filtered_df,
                   xaxis, history>>

\* lines 136-144: the line of ratings by name
LineRatings ==
    /\ pc = "line_ratings"
    /\ figs' = Draw("fig1", LineRating(filtered_df))
    /\ pc' = "line_prices"
    /\ UNCHANGED <<csv, error, loads, runs, hotels_df, ui, widgets, controls, filtered_df,
                   price_mean, xaxis, history>>

\* lines 146-154: the line of prices by name
LinePrices ==
    /\ pc = "line_prices"
    /\ figs' = Draw("fig2", LinePrice(filtered_df))
    /\ pc' = "hurghada"
    /\ UNCHANGED <<csv, error, loads, runs, hotels_df, ui, widgets, controls, filtered_df,
                   price_mean, xaxis, history>>

\* lines 156-174: every filtered hotel as a bar; the frame is sorted by
\* rating, descending, and the layout then orders the axis 'total ascending'.
HotelRatings ==
    /\ pc = "hurghada"
    /\ \E sorted \in SortValues(filtered_df) :
          /\ figs' = Draw("fig_price", BarRating(sorted, "name"))
          /\ xaxis' \in TotalAscending(BarRating(sorted, "name"))
    /\ pc' = "success"
    /\ UNCHANGED <<csv, error, loads, runs, hotels_df, ui, widgets, controls, filtered_df,
                   price_mean, history>>

\* line 176: st.success("Analysis Complete!")
Success ==
    /\ pc = "success"
    /\ pc' = "done"
    /\ UNCHANGED <<csv, error, loads, runs, hotels_df, ui, widgets, controls, filtered_df,
                   charts, history>>

\* ------------------------------------------------------- the interactions

\* The positions a slider can be put at: the ends of its range and one
\* position in between.
PriceStops ==
    {p \in {Num(0), Num(600 * Unit), widgets.price_max} : Leq(p, widgets.price_max)}
RatingStops == {Num(0), Num(8 * Unit + 50), Num(10 * Unit)}

\* The framework evaluates the script synchronously: a change of a control is
\* taken up when the run in progress has ended, with the controls on the page
\* (and, in the model, while the session has interactions left).
CanInteract == widgets.shown /\ pc = "done" /\ runs <= MaxInteractions

\* A change of a control starts a new run of the script, from its first line.
NewRun ==
    /\ pc' = "read_csv"
    /\ error' = ""
    /\ runs' = runs + 1
    /\ UNCHANGED <<csv, loads, hotels_df, widgets, controls, filtered_df, charts, history>>

ChangePriceRange ==
    /\ CanInteract
    /\ \E lo, hi \in PriceStops :
          /\ Leq(lo, hi)
          /\ <<lo, hi>> # <<min_price, max_price>>
          /\ ui' = [ui EXCEPT !.price = [set |-> TRUE, lo |-> lo, hi |-> hi]]
    /\ NewRun

ChangeRatingRange ==
    /\ CanInteract
    /\ \E lo, hi \in RatingStops :
          /\ Leq(lo, hi)
          /\ <<lo, hi>> # <<min_rating, max_rating>>
          /\ ui' = [ui EXCEPT !.rating = [set |-> TRUE, lo |-> lo, hi |-> hi]]
    /\ NewRun

ChangeLocations ==
    /\ CanInteract
    /\ \E locs \in SUBSET widgets.options :
          /\ locs # selected_locations
          /\ ui' = [ui EXCEPT !.locations = [set |-> TRUE, v |-> locs]]
    /\ NewRun

\* The page's rerun command: a new run with the controls as they are.
Rerun ==
    /\ pc = "done"
    /\ runs <= MaxInteractions
    /\ ui' = ui
    /\ NewRun

Next ==
    \/ LoadCsv \/ CleanPrice \/ CleanRating \/ DropNaRows \/ Sidebar \/ ApplyFilter
    \/ TopRated \/ PriceDistribution \/ RatingVsPrice \/ AvgPriceByHotel \/ BudgetRated
    \/ LineRatings \/ LinePrices \/ HotelRatings \/ Success
    \/ ChangePriceRange \/ ChangeRatingRange \/ ChangeLocations \/ Rerun

Spec == Init /\ [][Next]_vars

\* ------------------------------------------------------------ properties

\* The source row i has a row in the base table (rows keep their index label).
Retained(i) == \E j \in 1..Len(hotels_df) : hotels_df[j].idx = i - 1
BaseRow(i) == hotels_df[CHOOSE j \in 1..Len(hotels_df) : hotels_df[j].idx = i - 1]

PriceParses(i) == ~IsNa(CleanPriceCell(ReadCell(csv[i].price)))
RatingParses(i) == ~IsNa(CleanRatingCell(ReadCell(csv[i].rating)))

\* The documented scenario: hotel A (Cairo, "1,000 EGP", "7.0 Good") and hotel
\* B (Giza, "500 EGP", "9.0 Great").
Scenario == <<Catalogue[1], Catalogue[2]>>

\* The number x lies in [lo, hi], ends included.
Within(x, lo, hi) ==
    /\ x.kind = "num" /\ lo.kind = "num" /\ hi.kind = "num"
    /\ lo.v <= x.v /\ x.v <= hi.v

\* C1: the filtered table is exactly the rows of the base table whose price
\* and rating lie in their ranges, ends included, and whose location is
\* selected: no such row is missing, no other row is present, no row comes
\* twice, and the filtered table is no longer than the base table; in the
\* scenario, the price range [0, 600] leaves exactly hotel B.
C1_FilterExact ==
    pc \in PostFilter =>
        /\ \A i \in 1..Len(filtered_df) :
              \E j \in 1..Len(hotels_df) : hotels_df[j] = filtered_df[i]
        /\ \A j \in 1..Len(hotels_df) :
              (\E i \in 1..Len(filtered_df) : filtered_df[i] = hotels_df[j])
              <=> /\ Within(hotels_df[j].price, min_price, max_price)
                  /\ Within(hotels_df[j].rating, min_rating, max_rating)
                  /\ hotels_df[j].location \in selected_locations
        /\ \A i, k \in 1..Len(filtered_df) :
              i # k => filtered_df[i].idx # filtered_df[k].idx
        /\ Len(filtered_df) <= Len(hotels_df)
        /\ (/\ csv = Scenario
            /\ <<min_price, max_price>> = <<Num(0), Num(600 * Unit)>>
            /\ <<min_rating, max_rating>> = <<Num(0), Num(10 * Unit)>>
            /\ selected_locations = {"Cairo", "Giza"})
           => [i \in 1..Len(filtered_df) |-> filtered_df[i].name] = <<"B">>

\* C1 witness: the scenario filtered to the price range [0, 600], hotel B
\* alone in the result.
C1_Witness ==
    /\ pc \in PostFilter
    /\ csv = Scenario
    /\ <<min_price, max_price>> = <<Num(0), Num(600 * Unit)>>
    /\ <<min_rating, max_rating>> = <<Num(0), Num(10 * Unit)>>
    /\ selected_locations = {"Cairo", "Giza"}
    /\ Len(filtered_df) = 1
    /\ filtered_df[1].name = "B"

\* C2: once cleaned, every row of the base table (and of the filtered table)
\* has a price and a rating that are finite numbers.
C2_FiniteValues ==
    pc \in PostClean =>
        \A j \in 1..Len(hotels_df) :
            hotels_df[j].price.kind = "num" /\ hotels_df[j].rating.kind = "num"

\* The rating text holds a digit.
ContainsNumber(t) == \E k \in 1..Len(t) : t[k] \in Digits

\* The dots of t with a digit on either side.
DecimalPoints(t) ==
    {k \in 2..(Len(t) - 1) : t[k] = "." /\ t[k - 1] \in Digits /\ t[k + 1] \in Digits}

HasDecimalNumber(t) == DecimalPoints(t) # {}

\* The value, in hundredths, of the first decimal number of t: the digits
\* around the first such dot, as far as they reach on either side.
FirstDecimalNumber(t) ==
    LET k == CHOOSE x \in DecimalPoints(t) : \A y \in DecimalPoints(t) : x <= y
        a == CHOOSE x \in 1..(k - 1) :
                 /\ \A y \in x..(k - 1) : t[y] \in Digits
                 /\ x > 1 => t[x - 1] \notin Digits
        d == CHOOSE x \in (k + 1)..Len(t) :
                 /\ \A y \in (k + 1)..x : t[y] \in Digits
                 /\ x < Len(t) => t[x + 1] \notin Digits
    IN DigitsValue(SubSeq(t, a, k - 1)) * Unit + Frac2(SubSeq(t, k + 1, d))

\* C3, as stated: when cleaning ends, a record whose rating text contains a number is retained
\* with that number as its rating, and a record whose rating text contains
\* no number is dropped (records whose price is missing set aside).
C3_AnyNumberRetained ==
    pc = "sidebar" =>
        \A i \in 1..Len(csv) :
            PriceParses(i) => (ContainsNumber(csv[i].rating) <=> Retained(i))

\* C3, amended: the cleaned rating is the value of the first substring of the
\* rating text of the form digits "." digits ("8.5 Excellent" gives 8.5); a
\* text with no such substring, be it without any digit ("Excellent") or with
\* whole numbers only ("10"), gives a missing rating and the record is
\* dropped; a record whose text has such a substring, and whose price is not
\* missing, is retained with that number as its rating.
C3_FirstDecimalRetained ==
    pc = "sidebar" =>
        \A i \in 1..Len(csv) :
            LET t == csv[i].rating
            IN /\ ~HasDecimalNumber(t) => ~Retained(i)
               /\ (HasDecimalNumber(t) /\ PriceParses(i)) => Retained(i)
               /\ Retained(i) => BaseRow(i).rating = Num(FirstDecimalNumber(t))
               /\ (Retained(i) /\ t = <<"8", ".", "5", " ", "E", "x", "c", "e", "l", "l", "e", "n", "t">>)
                     => BaseRow(i).rating = Num(850)
               /\ t = <<"E", "x", "c", "e", "l", "l", "e", "n", "t">> => ~Retained(i)

\* C3 witness: a cleaned table that keeps "8.5 Excellent" as 8.5 and has
\* dropped a record whose rating text holds only a whole number.
C3_Witness ==
    /\ pc = "sidebar"
    /\ \E i \in 1..Len(csv) :
          /\ csv[i].rating = <<"8", ".", "5", " ", "E", "x", "c", "e", "l", "l", "e", "n", "t">>
          /\ Retained(i)
          /\ BaseRow(i).rating = Num(850)
    /\ \E i \in 1..Len(csv) :
          /\ ContainsNumber(csv[i].rating)
          /\ ~HasDecimalNumber(csv[i].rating)
          /\ PriceParses(i)
          /\ ~Retained(i)

\* The price text without its currency suffix and its thousands separators,
\* blanks at the ends trimmed.
WithoutSuffix(t) ==
    IF Len(t) >= 3 /\ SubSeq(t, Len(t) - 2, Len(t)) = <<"E", "G", "P">>
    THEN SubSeq(t, 1, Len(t) - 3)
    ELSE t

Trimmed(t) ==
    LET inked == {k \in 1..Len(t) : t[k] # " "}
    IN IF inked = {} THEN <<>>
       ELSE SubSeq(t, CHOOSE a \in inked : \A k \in inked : a <= k,
                      CHOOSE b \in inked : \A k \in inked : k <= b)

PriceRemainder(t) ==
    LET notSeparator(c) == c # "," IN Trimmed(SelectSeq(WithoutSuffix(t), notSeparator))

C5_BaseTableUnchanged ==
    [][/\ (pc \in PostClean /\ pc' \in PostClean) => hotels_df' = hotels_df
       /\ (pc = "dropna" /\ pc' = "sidebar") =>
             hotels_df' = DropNa(CleanRatingColumn(CleanPriceColumn(ReadCsv(csv))))
       /\ (pc = "done" /\ pc' = "read_csv") => hotels_df' = hotels_df]_vars

\* C5 witness: after interactions, a finished run whose filter and budget
\* selection left rows of the base table out.
C5_Witness ==
    /\ pc = "done"
    /\ runs > 1
    /\ hotels_df # <<>>
    /\ Len(filtered_df) < Len(hotels_df)
    /\ figs["fig_top_rated"].drawn /\ figs["fig_budget_rated"].drawn

C7_PureFilter ==
    /\ \A e1, e2 \in evaluations : e1.ctl = e2.ctl => e1.result = e2.result
    /\ pc \in PostFilter =>
          [ctl |-> <<min_price, max_price, min_rating, max_rating, selected_locations>>,
           result |-> filtered_df] \in evaluations

\* C7 witness: control values applied a second time, other values having been
\* applied in the session, with results that differ between the settings.
C7_Witness ==
    /\ pc \in PostFilter
    /\ repeated
    /\ \E e1, e2 \in evaluations : e1.result # e2.result

\* The charts drawn in a run before it reaches the statement p.
ChartSteps ==
    <<[at |-> "top_rated", fig |-> "fig_top_rated"],
      [at |-> "price_dist", fig |-> "fig_price_dist"],
      [at |-> "rating_vs_price", fig |-> "fig_rating_vs_price"],
      [at |-> "avg_price", fig |-> "fig_avg_price"],
      [at |-> "budget_rated", fig |-> "fig_budget_rated"],
      [at |-> "line_ratings", fig |-> "fig1"],
      [at |-> "line_prices", fig |-> "fig2"],
      [at |-> "hurghada", fig |-> "fig_price"]>>

DrawnBefore(p) ==
    {ChartSteps[k].fig : k \in {n \in 1..Len(ChartSteps) :
        \/ p \in {"success", "done"}
        \/ \E m \in (n + 1)..Len(ChartSteps) : ChartSteps[m].at = p}}

ChartStep ==
    \/ TopRated \/ PriceDistribution \/ RatingVsPrice \/ AvgPriceByHotel \/ BudgetRated
    \/ LineRatings \/ LinePrices \/ HotelRatings \/ Success

C9_MeanDefined ==
    (pc \in {"line_ratings", "line_prices", "hurghada", "success", "done"}
        /\ filtered_df = <<>>)
    => price_mean.kind = "num"

\* The position of a category on the axis of fig_price.
AxisPosition(c) == CHOOSE k \in 1..Len(xaxis) : xaxis[k] = c

\* C10: the bars of builder 8 stand along the axis from the best-rated hotel
\* to the worst-rated one, one bar per filtered record: a bar to the left of
\* another has a rating at least as high.
C10_BarsDescending ==
    pc \in {"success", "done"} =>
        LET bars == figs["fig_price"].data
        IN /\ Len(bars) = Len(filtered_df)
           /\ \A i, j \in 1..Len(bars) :
                 AxisPosition(bars[i].x) < AxisPosition(bars[j].x)
                    => bars[i].y.v >= bars[j].y.v

====
